---------------------------- MODULE Spec2Model ----------------------------
(***************************************************************************)
(* Model of the workflow concurrency validator                             *)
(* (src/src/validate-concurrency.ts).                                      *)
(*                                                                         *)
(* A workflow file is its parsed `jobs` mapping.  Strings are represented  *)
(* by what the program's regular expressions and `includes` tests read     *)
(* from them:                                                              *)
(*   - a matrix value is a list (its length) or a string (whether it       *)
(*     contains "fromJSON", "needs.", "outputs", the needs.X.outputs.Y     *)
(*     reference the patterns extract, and the number of elements of a     *)
(*     bracketed literal written in it);                                   *)
(*   - a declared output value is a string given by the pieces between     *)
(*     the commas of its first [...] group;                                *)
(*   - a step's run lines are the `echo 'key=[...]' >> $GITHUB_OUTPUT`     *)
(*     lines the scan matches, each with its key and its element count.    *)
(***************************************************************************)
EXTENDS Integers, Sequences, FiniteSets, TLC

\* ------------------------------------------------------------------ bounds
MaxJobs == 3
MaxListLen == 2
MaxCeiling == 2
MaxDims == 2
MaxFiles == 2

\* ------------------------------------------------------- program constants
DefaultArraySize == 3
DefaultProviderSize == 3
DefaultMatrixSize == 3

\* --------------------------------------------------------------- universes
JobNames == <<"a", "b", "c", "d", "e", "f">>
Ghost == "zz"
NoRef == <<>>

Declared(n) == {JobNames[i] : i \in 1..n}

Range(s) == {s[i] : i \in 1..Len(s)}

RECURSIVE SeqSum(_)
SeqSum(s) == IF s = <<>> THEN 0 ELSE Head(s) + SeqSum(Tail(s))

RECURSIVE SeqProd(_)
SeqProd(s) == IF s = <<>> THEN 1 ELSE Head(s) * SeqProd(Tail(s))

SetMax(S) == IF S = {} THEN 0 ELSE CHOOSE x \in S : \A y \in S : y <= x

\* the widths of the levels added up
MaxAsSum(a, b) == a + b

\* Math.max
Max(a, b) == IF a >= b THEN a ELSE b

\* ------------------------------------------------------------ input values
\* strategy.matrix entries
ListDim(n) ==
    [kind |-> "list", len |-> n, fromJSON |-> FALSE, needsDot |-> FALSE,
     outputs |-> FALSE, ref |-> NoRef, inline |-> 0]

StrDim(fj, nd, out, r, lit) ==
    [kind |-> "string", len |-> 0, fromJSON |-> fj, needsDot |-> nd,
     outputs |-> out, ref |-> r, inline |-> lit]

\* a value that is neither an array nor a string (a number, a boolean, a map)
OtherDim == [kind |-> "other", len |-> 0, fromJSON |-> FALSE, needsDot |-> FALSE,
             outputs |-> FALSE, ref |-> NoRef, inline |-> 0]

\* fromJSON(needs.j.outputs.k)
RefDim(j, k) == StrDim(TRUE, TRUE, TRUE, <<j, k>>, 0)

\* job.outputs values
PlainOut == [isString |-> TRUE, bracket |-> FALSE, closed |-> FALSE, content |-> <<>>]
NonStringOut == [isString |-> FALSE, bracket |-> FALSE, closed |-> FALSE, content |-> <<>>]
LiteralOut(pieces) == [isString |-> TRUE, bracket |-> TRUE, closed |-> TRUE, content |-> pieces]
UnclosedOut == [isString |-> TRUE, bracket |-> TRUE, closed |-> FALSE, content |-> <<>>]

Items(n) == [i \in 1..n |-> "item"]

Job(needs, hasMatrix, matrix, outputs, steps) ==
    [needs |-> needs, hasMatrix |-> hasMatrix, matrix |-> matrix,
     outputs |-> outputs, steps |-> steps]

PlainJob(needs) == Job(needs, FALSE, <<>>, <<>>, <<>>)

\* ----------------------------------------------------------- pure functions

\* value.match(/(['"])(.*?)\1/g): the quote characters of the content, in order
RECURSIVE QuotedCount(_)
QuotedCount(qs) ==
    IF qs = <<>> THEN 0
    ELSE LET close == {i \in 2..Len(qs) : qs[i] = qs[1]}
         IN  IF close = {} THEN QuotedCount(Tail(qs))
             ELSE LET i == CHOOSE x \in close : \A y \in close : x <= y
                  IN  1 + QuotedCount(SubSeq(qs, i + 1, Len(qs)))

\* extractArraySize(value)
extractArraySize(value) ==
    IF ~value.bracket THEN 1
    ELSE IF ~value.closed \/ value.content = <<>> THEN 1
    ELSE LET elements == SelectSeq(value.content, LAMBDA p : p = "item")
             quotes == SelectSeq(value.content, LAMBDA p : p \in {"dq", "sq"})
         IN  IF Len(elements) > 0 THEN Len(elements)
             ELSE IF QuotedCount(quotes) > 0 THEN QuotedCount(quotes)
             ELSE DefaultArraySize

\* arrayContent.split(',').length for a literal of n elements
SplitCount(n) == IF n = 0 THEN 1 ELSE n

\* extractArraySizesFromSteps(workflow): providerKey -> size; a later matching
\* line overwrites an earlier one with the same key
RECURSIVE ScanSteps(_, _, _)
ScanSteps(jobKey, steps, acc) ==
    IF steps = <<>> THEN acc
    ELSE LET key == <<jobKey, Head(steps).key>>
             size == SplitCount(Head(steps).elems)
             at == {i \in 1..Len(acc) : acc[i].key = key}
             next == IF at = {} THEN Append(acc, [key |-> key, size |-> size])
                     ELSE [acc EXCEPT ![CHOOSE i \in at : TRUE].size = size]
         IN  ScanSteps(jobKey, Tail(steps), next)

RECURSIVE ScanJobs(_, _, _)
ScanJobs(jobs, n, i) ==
    IF i > n THEN <<>>
    ELSE LET rest == ScanJobs(jobs, n, i + 1)
             mine == ScanSteps(JobNames[i], jobs[JobNames[i]].steps, <<>>)
         IN  mine \o rest

extractArraySizesFromSteps(jobs, n) == ScanJobs(jobs, n, 1)

MapHas(m, key) == \E i \in 1..Len(m) : m[i].key = key
MapGet(m, key) == m[CHOOSE i \in 1..Len(m) : m[i].key = key]

\* extractFromJsonReference(value): the three patterns, the last of which is
\* any occurrence of needs.X.outputs.Y
extractFromJsonReference(value) == value.ref

\* getMatrixProviders(workflow): the providers in insertion order (jobs in
\* declaration order, outputs in declaration order).  The consumers sets are
\* only logged and are left out.
ProviderSize(providerKey, value, arraySizesFromSteps) ==
    IF MapHas(arraySizesFromSteps, providerKey)
    THEN LET got == MapGet(arraySizesFromSteps, providerKey).size
         IN  IF got = 0 THEN DefaultProviderSize ELSE got
    ELSE IF value.bracket THEN extractArraySize(value)
    ELSE DefaultProviderSize

RECURSIVE ProvidersOfJob(_, _, _)
ProvidersOfJob(jobKey, outputs, arraySizesFromSteps) ==
    IF outputs = <<>> THEN <<>>
    ELSE LET o == Head(outputs)
             rest == ProvidersOfJob(jobKey, Tail(outputs), arraySizesFromSteps)
         IN  IF o.val.isString
             THEN <<[key |-> <<jobKey, o.key>>, jobKey |-> jobKey, outputKey |-> o.key,
                     size |-> ProviderSize(<<jobKey, o.key>>, o.val, arraySizesFromSteps)]>>
                  \o rest
             ELSE rest

RECURSIVE ProvidersFrom(_, _, _, _)
ProvidersFrom(jobs, n, i, arraySizesFromSteps) ==
    IF i > n THEN <<>>
    ELSE ProvidersOfJob(JobNames[i], jobs[JobNames[i]].outputs, arraySizesFromSteps)
         \o ProvidersFrom(jobs, n, i + 1, arraySizesFromSteps)

getMatrixProviders(jobs, n) ==
    ProvidersFrom(jobs, n, 1, extractArraySizesFromSteps(jobs, n))

\* one iteration of the forEach over the matrix entries in calculateMatrixSize:
\* the number matrixSize is multiplied by
DimFactor(value, matrixProviders) ==
    IF value.kind = "list" THEN value.len
    ELSE IF value.kind = "string" /\ value.fromJSON
    THEN LET reference == extractFromJsonReference(value)
         IN  IF reference # NoRef
             THEN IF MapHas(matrixProviders, reference)
                  THEN MapGet(matrixProviders, reference).size
                  ELSE DefaultMatrixSize
             ELSE IF value.fromJSON /\ value.needsDot /\ value.outputs
                  THEN DefaultMatrixSize
                  ELSE 1
    ELSE 1

\* the sizes of the dimensions added up
MatrixSum(job, matrixProviders) ==
    SeqSum([i \in 1..Len(job.matrix) |-> DimFactor(job.matrix[i], matrixProviders)])

MatrixProduct(job, matrixProviders) ==
    SeqProd([i \in 1..Len(job.matrix) |-> DimFactor(job.matrix[i], matrixProviders)])

usesFromJson(job) ==
    \E i \in 1..Len(job.matrix) :
        job.matrix[i].kind = "string" /\ job.matrix[i].fromJSON

\* the "special case" loop of calculateMatrixSize over job.needs
RECURSIVE SpecialCase(_, _, _)
SpecialCase(matrixSize, needs, matrixProviders) ==
    IF needs = <<>> THEN matrixSize
    ELSE LET hits == {i \in 1..Len(matrixProviders) :
                        /\ matrixProviders[i].jobKey = Head(needs)
                        /\ matrixProviders[i].size > 1}
             now == IF matrixSize = 1 /\ hits # {}
                    THEN matrixProviders[CHOOSE i \in hits : \A j \in hits : i <= j].size
                    ELSE matrixSize
         IN  SpecialCase(now, Tail(needs), matrixProviders)

calculateMatrixSize(job, matrixProviders) ==
    IF ~job.hasMatrix THEN 1
    ELSE LET matrixSize == MatrixProduct(job, matrixProviders)
         IN  IF usesFromJson(job)
             THEN SpecialCase(matrixSize, job.needs, matrixProviders)
             ELSE matrixSize

\* calculateLevelConcurrency: the pushes into jobsByProvider, in the order of
\* the traversal (level order, then matrix entry order)
PushesOfJob(jobKey, job, matrixProviders) ==
    IF ~job.hasMatrix THEN <<>>
    ELSE LET uses(v) == /\ v.kind = "string" /\ v.fromJSON
                        /\ extractFromJsonReference(v) # NoRef
                        /\ MapHas(matrixProviders, extractFromJsonReference(v))
             hit == SelectSeq(job.matrix, uses)
         IN  [i \in 1..Len(hit) |->
                [providerKey |-> extractFromJsonReference(hit[i]), jobKey |-> jobKey]]

RECURSIVE Pushes(_, _, _)
Pushes(level, jobs, matrixProviders) ==
    IF level = <<>> THEN <<>>
    ELSE PushesOfJob(Head(level), jobs[Head(level)], matrixProviders)
         \o Pushes(Tail(level), jobs, matrixProviders)

\* jobsByProvider.forEach: the job keys of every group, group after group in
\* the order the provider keys were first inserted
RECURSIVE GroupedJobKeys(_)
GroupedJobKeys(pushes) ==
    IF pushes = <<>> THEN <<>>
    ELSE LET pk == Head(pushes).providerKey
             same == SelectSeq(pushes, LAMBDA p : p.providerKey = pk)
             others == SelectSeq(pushes, LAMBDA p : p.providerKey # pk)
         IN  [i \in 1..Len(same) |-> same[i].jobKey] \o GroupedJobKeys(others)

calculateLevelConcurrency(level, jobs, matrixProviders) ==
    LET grouped == GroupedJobKeys(Pushes(level, jobs, matrixProviders))
        processedJobs == Range(grouped)
        remaining == SelectSeq(level, LAMBDA j : j \notin processedJobs)
        size(j) == calculateMatrixSize(jobs[j], matrixProviders)
    IN  SeqSum([i \in 1..Len(grouped) |-> size(grouped[i])])
        + SeqSum([i \in 1..Len(remaining) |-> size(remaining[i])])

\* dependencyMap.get(job)
dependencyMap(jobs, jobKey) == Range(jobs[jobKey].needs)

\* a filter that ignores the dependencies
currentLevelUnfiltered(jobs, n, remaining) ==
    SelectSeq(SubSeq(JobNames, 1, n), LAMBDA j : j \in remaining)

\* a filter for which only an already placed job satisfies a dependency
currentLevelKnownOnly(jobs, n, remaining) ==
    SelectSeq(SubSeq(JobNames, 1, n),
              LAMBDA j : /\ j \in remaining
                         /\ \A dep \in dependencyMap(jobs, j) :
                               dep \in Declared(n) \ remaining)

\* Array.from(remainingJobs).filter(...): declaration order is kept
currentLevelOf(jobs, n, remaining) ==
    SelectSeq(SubSeq(JobNames, 1, n),
              LAMBDA j : /\ j \in remaining
                         /\ \A dep \in dependencyMap(jobs, j) : dep \notin remaining)

\* ------------------------------------------------------------------- state
VARIABLES
    hasJobs,            \* workflow.jobs is present
    njobs,              \* number of keys of workflow.jobs
    jobs,               \* workflow.jobs
    MAX_CONCURRENCY,    \* the ceiling read from INPUT_MAX_CONCURRENCY
    pc,                 \* position in analyzeWorkflow
    matrixProviders,    \* getMatrixProviders(workflow)
    remainingJobs,      \* the unplaced jobs of the layering loop
    jobLevels,          \* the levels extracted so far
    iterations,         \* evaluations of the loop body
    warned,             \* the circular dependency warning was logged
    levelIndex,         \* levels processed by jobLevels.forEach
    matrixSizeOf,       \* the matrixSize computed for each job of a processed level
    maxConcurrency,
    details,
    result,             \* the returned WorkflowValidationResult
    relativeFilePath,   \* the second argument of analyzeWorkflow
    FAIL_ON_ERROR,      \* INPUT_FAIL_ON_ERROR is 'true' (or unset)
    files,              \* workflowFiles: what glob.sync found, in its order
    mpc,                \* position in the top-level try/catch
    fileIndex,          \* files for which the forEach callback has returned
    issues,
    workflowResults,
    anyFailures,
    outputs,            \* the setOutput calls made so far, in order
    exitCode,           \* the exit code once the process has ended
    concurrency         \* the `concurrency` keys of the workflow and of its jobs

vars == <<hasJobs, njobs, jobs, MAX_CONCURRENCY, pc, matrixProviders, remainingJobs,
          jobLevels, iterations, warned, levelIndex, matrixSizeOf, maxConcurrency, details,
          result, relativeFilePath, FAIL_ON_ERROR, files, mpc, fileIndex, issues,
          workflowResults, anyFailures, outputs, exitCode, concurrency>>

\* the state of the top-level code
main == <<FAIL_ON_ERROR, files, mpc, fileIndex, issues, workflowResults, anyFailures,
          outputs, exitCode>>

\* what analyzeWorkflow reads and never writes: its arguments, the ceiling and
\* the state of the top-level code
input == <<hasJobs, njobs, jobs, MAX_CONCURRENCY, relativeFilePath, main, concurrency>>

NoResult == [file |-> "none", concurrencyCount |-> 0, passed |-> FALSE, details |-> <<>>]

\* a `concurrency` key: absent, a group, a group with cancel-in-progress: true
Declarations == {"none", "group", "cancel"}

\* no `concurrency` key in the workflow nor in the n jobs
NoConcurrency(n) == [workflow |-> "none", jobs |-> [j \in Declared(n) |-> "none"]]

\* the state when analyzeWorkflow is entered
Entry ==
    /\ pc = "start"
    /\ matrixProviders = <<>>
    /\ remainingJobs = {}
    /\ jobLevels = <<>>
    /\ iterations = 0
    /\ warned = FALSE
    /\ levelIndex = 0
    /\ matrixSizeOf = [j \in {} |-> 0]
    /\ maxConcurrency = 0
    /\ details = <<>>
    /\ result = NoResult

\* analyzeWorkflow called on its own for the file "f": the top-level code is
\* left out
Standalone ==
    /\ relativeFilePath = "f"
    /\ FAIL_ON_ERROR = TRUE
    /\ files = <<>>
    /\ mpc = "none"
    /\ fileIndex = 0
    /\ issues = <<>>
    /\ workflowResults = <<>>
    /\ anyFailures = FALSE
    /\ outputs = <<>>
    /\ exitCode = 0

\* ----------------------------------------------------------------- actions

\* an early return that reports the file without jobs as failed
AnalyzeNoJobsFailed ==
    /\ pc = "start"
    /\ ~hasJobs
    /\ result' = [file |-> relativeFilePath, concurrencyCount |-> 0, passed |-> FALSE,
                  details |-> <<>>]
    /\ pc' = "done"
    /\ UNCHANGED <<input, matrixProviders, remainingJobs, jobLevels, iterations, warned,
                   levelIndex, matrixSizeOf, maxConcurrency, details>>

\* analyzeWorkflow, lines 506-513: no jobs mapping
AnalyzeNoJobs ==
    /\ pc = "start"
    /\ ~hasJobs
    /\ result' = [file |-> relativeFilePath, concurrencyCount |-> 0, passed |-> TRUE, details |-> <<>>]
    /\ pc' = "done"
    /\ UNCHANGED <<input, matrixProviders, remainingJobs, jobLevels, iterations, warned,
                   levelIndex, matrixSizeOf, maxConcurrency, details>>

\* analyzeWorkflow, lines 515-574: providers, dependency map, remainingJobs and
\* the first test of the while condition
AnalyzeBegin ==
    /\ pc = "start"
    /\ hasJobs
    /\ matrixProviders' = getMatrixProviders(jobs, njobs)
    /\ remainingJobs' = Declared(njobs)
    /\ jobLevels' = <<>>
    /\ pc' = IF Declared(njobs) = {} THEN "aggregate" ELSE "layering"
    /\ UNCHANGED <<input, iterations, warned, levelIndex, matrixSizeOf, maxConcurrency,
                   details, result>>

\* one iteration of the while loop that extracts a level, lines 574-588, and
\* the test of the while condition that follows it
LayerStep ==
    /\ pc = "layering"
    /\ remainingJobs # {}
    /\ LET currentLevel == currentLevelOf(jobs, njobs, remainingJobs)
       IN  /\ currentLevel # <<>>
           /\ jobLevels' = Append(jobLevels, currentLevel)
           /\ remainingJobs' = remainingJobs \ Range(currentLevel)
    /\ iterations' = iterations + 1
    /\ pc' = IF remainingJobs' = {} THEN "aggregate" ELSE "layering"
    /\ UNCHANGED <<input, matrixProviders, warned, levelIndex, matrixSizeOf,
                   maxConcurrency, details, result>>

\* an iteration without a ready job that does not leave the loop
CycleBreakNoStop ==
    /\ pc = "layering"
    /\ remainingJobs # {}
    /\ currentLevelOf(jobs, njobs, remainingJobs) = <<>>
    /\ warned' = TRUE
    /\ iterations' = iterations + 1
    /\ UNCHANGED <<input, pc, matrixProviders, remainingJobs, jobLevels, levelIndex,
                   matrixSizeOf, maxConcurrency, details, result>>

\* an iteration without a ready job that places all the unplaced jobs in a
\* last level
CycleBreakFlush ==
    /\ pc = "layering"
    /\ remainingJobs # {}
    /\ currentLevelOf(jobs, njobs, remainingJobs) = <<>>
    /\ warned' = TRUE
    /\ iterations' = iterations + 1
    /\ jobLevels' = Append(jobLevels, currentLevelUnfiltered(jobs, njobs, remainingJobs))
    /\ remainingJobs' = {}
    /\ pc' = "aggregate"
    /\ UNCHANGED <<input, matrixProviders, levelIndex, matrixSizeOf, maxConcurrency,
                   details, result>>

\* the iteration that finds no ready job, lines 575-584
CycleBreak ==
    /\ pc = "layering"
    /\ remainingJobs # {}
    /\ currentLevelOf(jobs, njobs, remainingJobs) = <<>>
    /\ warned' = TRUE
    /\ iterations' = iterations + 1
    /\ pc' = "aggregate"
    /\ UNCHANGED <<input, matrixProviders, remainingJobs, jobLevels, levelIndex,
                   matrixSizeOf, maxConcurrency, details, result>>

\* a callback for which the jobs of a workflow with a `concurrency` key run
\* one at a time
ProcessLevelGrouped ==
    /\ pc = "aggregate"
    /\ levelIndex < Len(jobLevels)
    /\ LET level == jobLevels[levelIndex + 1]
           levelConcurrency ==
               IF concurrency.workflow = "none"
               THEN calculateLevelConcurrency(level, jobs, matrixProviders)
               ELSE 1
       IN  IF level = <<>>
           THEN UNCHANGED <<matrixSizeOf, details, maxConcurrency>>
           ELSE /\ matrixSizeOf' =
                     [j \in DOMAIN matrixSizeOf \cup Range(level) |->
                        IF j \in Range(level)
                        THEN calculateMatrixSize(jobs[j], matrixProviders)
                        ELSE matrixSizeOf[j]]
                /\ details' = Append(details, [file |-> relativeFilePath, jobs |-> level,
                                               count |-> levelConcurrency, counted |-> TRUE])
                /\ maxConcurrency' = Max(maxConcurrency, levelConcurrency)
    /\ levelIndex' = levelIndex + 1
    /\ UNCHANGED <<input, pc, matrixProviders, remainingJobs, jobLevels, iterations,
                   warned, result>>

\* one callback of jobLevels.forEach, lines 593-653
ProcessLevel ==
    /\ pc = "aggregate"
    /\ levelIndex < Len(jobLevels)
    /\ LET level == jobLevels[levelIndex + 1]
           levelConcurrency == calculateLevelConcurrency(level, jobs, matrixProviders)
       IN  IF level = <<>>
           THEN UNCHANGED <<matrixSizeOf, details, maxConcurrency>>
           ELSE /\ matrixSizeOf' =
                     [j \in DOMAIN matrixSizeOf \cup Range(level) |->
                        IF j \in Range(level)
                        THEN calculateMatrixSize(jobs[j], matrixProviders)
                        ELSE matrixSizeOf[j]]
                /\ details' = Append(details, [file |-> relativeFilePath, jobs |-> level,
                                               count |-> levelConcurrency, counted |-> TRUE])
                /\ maxConcurrency' = Max(maxConcurrency, levelConcurrency)
    /\ levelIndex' = levelIndex + 1
    /\ UNCHANGED <<input, pc, matrixProviders, remainingJobs, jobLevels, iterations,
                   warned, result>>

\* a return statement that compares with < in place of <=
ReturnStrict ==
    /\ pc = "aggregate"
    /\ levelIndex = Len(jobLevels)
    /\ result' = [file |-> relativeFilePath, concurrencyCount |-> maxConcurrency,
                  passed |-> (maxConcurrency < MAX_CONCURRENCY), details |-> details]
    /\ pc' = "done"
    /\ UNCHANGED <<input, matrixProviders, remainingJobs, jobLevels, iterations, warned,
                   levelIndex, matrixSizeOf, maxConcurrency, details>>

\* the return statement, lines 655-660
Return ==
    /\ pc = "aggregate"
    /\ levelIndex = Len(jobLevels)
    /\ result' = [file |-> relativeFilePath, concurrencyCount |-> maxConcurrency,
                  passed |-> (maxConcurrency <= MAX_CONCURRENCY), details |-> details]
    /\ pc' = "done"
    /\ UNCHANGED <<input, matrixProviders, remainingJobs, jobLevels, iterations, warned,
                   levelIndex, matrixSizeOf, maxConcurrency, details>>

Next ==
    \/ AnalyzeNoJobs
    \/ AnalyzeBegin
    \/ LayerStep
    \/ CycleBreak
    \/ ProcessLevel
    \/ Return

\* ------------------------------------------------------------ initial states

\* job.needs listing the ids of S in the order of JobNames, Ghost last
NeedsOf(S) ==
    SelectSeq(JobNames \o <<Ghost>>, LAMBDA j : j \in S)

\* the subsets of S with at most k elements
RECURSIVE SubsetsUpTo(_, _)
SubsetsUpTo(S, k) ==
    IF k = 0 \/ S = {} THEN {{}}
    ELSE LET x == CHOOSE y \in S : TRUE
             rest == S \ {x}
         IN  SubsetsUpTo(rest, k) \cup {T \cup {x} : T \in SubsetsUpTo(rest, k - 1)}

\* the workflow of n jobs whose `needs` entries are the pairs of E and whose
\* jobs of W have a static matrix of one list
GraphJobs(n, E, W) ==
    [j \in Declared(n) |->
        Job(NeedsOf({t \in Declared(n) \cup {Ghost} : <<j, t>> \in E}),
            j \in W,
            IF j \in W THEN <<ListDim(MaxListLen)>> ELSE <<>>,
            <<>>, <<>>)]

\* dependency graphs: up to MaxJobs jobs, up to MaxJobs `needs` entries in all
\* (to declared jobs, to the job itself, to an undeclared id); the jobs have a
\* static matrix or none, and none when an undeclared id is needed
Init ==
    /\ MAX_CONCURRENCY \in {MaxCeiling - 1, MaxCeiling}
    /\ hasJobs \in BOOLEAN
    /\ njobs \in 0..MaxJobs
    /\ ~hasJobs => njobs = 0
    /\ \E E \in SubsetsUpTo(Declared(njobs) \X (Declared(njobs) \cup {Ghost}), MaxJobs),
          W \in SUBSET Declared(njobs) :
            /\ (\E e \in E : e[2] = Ghost) => W = {}
            /\ jobs = GraphJobs(njobs, E, W)
    /\ concurrency = NoConcurrency(njobs)
    /\ Entry
    /\ Standalone

Spec == Init /\ [][Next]_vars

\* the sequences over S of length at most k
RECURSIVE SeqsUpTo(_, _)
SeqsUpTo(S, k) ==
    IF k = 0 THEN {<<>>}
    ELSE LET shorter == SeqsUpTo(S, k - 1)
         IN  shorter \cup {Append(q, x) : q \in shorter, x \in S}

\* values of the output key "k" of the provider job
DeclaredValues ==
    {PlainOut, NonStringOut, LiteralOut(<<>>), LiteralOut(Items(1)),
     LiteralOut(Items(MaxListLen)), LiteralOut(<<"blank">>)}

ProviderOutputs ==
    {<<>>}
    \cup {<<[key |-> "k", val |-> v]>> : v \in DeclaredValues}
    \cup {<<[key |-> "k", val |-> v], [key |-> "m", val |-> PlainOut]>> :
            v \in {PlainOut, LiteralOut(Items(1))}}

\* the matching echo lines of the provider job's steps
ProviderSteps ==
    {<<>>, <<[key |-> "k", elems |-> 1], [key |-> "k", elems |-> MaxListLen]>>}
    \cup {<<[key |-> "k", elems |-> e]>> : e \in 0..MaxListLen}

\* values of a matrix entry of the consumer job
DimValues ==
    {ListDim(0), ListDim(1), ListDim(MaxListLen),
     RefDim("a", "k"), RefDim("a", "m"), RefDim(Ghost, "k"),
     StrDim(TRUE, FALSE, FALSE, NoRef, 0),
     StrDim(TRUE, TRUE, TRUE, NoRef, 0),
     StrDim(TRUE, FALSE, FALSE, NoRef, MaxListLen),
     StrDim(FALSE, TRUE, TRUE, <<"a", "k">>, 0)}

\* a provider job "a" and a consumer job "b"
MatrixJobs(outs, steps, needs, hasMatrix, matrix) ==
    [j \in {"a", "b"} |->
        IF j = "a" THEN Job(<<>>, FALSE, <<>>, outs, steps)
        ELSE Job(needs, hasMatrix, matrix, <<>>, <<>>)]

\* fan-out resolution: a provider job with declared outputs and step output
\* lines, a consumer job with up to MaxDims matrix entries
InitMatrix ==
    /\ MAX_CONCURRENCY = MaxCeiling
    /\ hasJobs \in BOOLEAN
    /\ njobs = IF hasJobs THEN 2 ELSE 0
    /\ IF hasJobs
       THEN \E outs \in ProviderOutputs, steps \in ProviderSteps,
               needs \in {<<>>, <<"a">>, <<"b">>},
               matrix \in SeqsUpTo(DimValues, MaxDims), hasMatrix \in BOOLEAN :
                 /\ ~hasMatrix => matrix = <<>>
                 /\ jobs = MatrixJobs(outs, steps, needs, hasMatrix, matrix)
       ELSE jobs = <<>>
    /\ concurrency = NoConcurrency(njobs)
    /\ Entry
    /\ Standalone

SpecMatrix == InitMatrix /\ [][Next]_vars

\* workflows of one or two jobs with `concurrency` keys at the workflow level
\* and at the job level
InitConcurrency ==
    /\ MAX_CONCURRENCY = MaxCeiling
    /\ hasJobs \in BOOLEAN
    /\ njobs \in 0..2
    /\ hasJobs <=> njobs > 0
    /\ \E E \in SUBSET ({<<"a", "a">>, <<"b", "a">>} \cap (Declared(njobs) \X Declared(njobs))),
          W \in SUBSET Declared(njobs) :
            jobs = GraphJobs(njobs, E, W)
    /\ \E w \in Declarations, js \in [Declared(njobs) -> Declarations] :
          concurrency = [workflow |-> w, jobs |-> js]
    /\ Entry
    /\ Standalone

SpecConcurrency == InitConcurrency /\ [][Next]_vars

\* ------------------------------------------------------ the top-level code

\* the paths glob.sync returns, in its order
FileNames == <<"w1", "w2", "w3", "w4">>

\* let totalConcurrency = 0, never assigned afterwards
totalConcurrency == 0

\* a file that readFileSync or yaml.load rejects, or whose loaded document is
\* not a mapping (analyzeWorkflow throws on workflow.jobs)
BadFile == [kind |-> "bad", hasJobs |-> FALSE, njobs |-> 0, jobs |-> <<>>]

\* a file that loads to a mapping without `jobs`
NoJobsFile == [kind |-> "ok", hasJobs |-> FALSE, njobs |-> 0, jobs |-> <<>>]

\* a file that loads to a mapping with `jobs`
WorkflowFile(n, E, W) ==
    [kind |-> "ok", hasJobs |-> TRUE, njobs |-> n, jobs |-> GraphJobs(n, E, W)]

\* the strings pushed into issues
ViolationIssue(file, count, max) ==
    [kind |-> "violation", file |-> file, count |-> count, max |-> max]
ErrorIssue(file) == [kind |-> "error", file |-> file, count |-> 0, max |-> 0]
FatalIssue == [kind |-> "fatal", file |-> "none", count |-> 0, max |-> 0]

\* setOutput(name, value): one more record appended to the output file
setOutput(out, name, value) == Append(out, [name |-> name, value |-> value])

\* validateInputs() returns, line 664; glob.sync gives workflowFiles
ValidateInputs ==
    /\ mpc = "validate"
    /\ ~(MAX_CONCURRENCY <= 0)
    /\ mpc' = "files"
    /\ UNCHANGED <<hasJobs, njobs, jobs, MAX_CONCURRENCY, concurrency, pc, matrixProviders,
                   remainingJobs, jobLevels, iterations, warned, levelIndex, matrixSizeOf,
                   maxConcurrency, details, result, relativeFilePath, FAIL_ON_ERROR,
                   files, fileIndex, issues, workflowResults, anyFailures, outputs,
                   exitCode>>

\* validateInputs() throws, lines 111-113
ValidateInputsThrows ==
    /\ mpc = "validate"
    /\ MAX_CONCURRENCY <= 0
    /\ mpc' = "catch"
    /\ UNCHANGED <<hasJobs, njobs, jobs, MAX_CONCURRENCY, concurrency, pc, matrixProviders,
                   remainingJobs, jobLevels, iterations, warned, levelIndex, matrixSizeOf,
                   maxConcurrency, details, result, relativeFilePath, FAIL_ON_ERROR,
                   files, fileIndex, issues, workflowResults, anyFailures, outputs,
                   exitCode>>

\* the forEach callback up to the call of analyzeWorkflow, lines 679-685; the
\* locals of the analyzeWorkflow call that keeps them from another call
FileBeginKeepMax ==
    /\ mpc = "files"
    /\ fileIndex < Len(files)
    /\ files[fileIndex + 1].kind = "ok"
    /\ relativeFilePath' = FileNames[fileIndex + 1]
    /\ hasJobs' = files[fileIndex + 1].hasJobs
    /\ njobs' = files[fileIndex + 1].njobs
    /\ jobs' = files[fileIndex + 1].jobs
    /\ concurrency' = NoConcurrency(files[fileIndex + 1].njobs)
    /\ pc' = "start"
    /\ matrixProviders' = <<>>
    /\ remainingJobs' = {}
    /\ jobLevels' = <<>>
    /\ iterations' = 0
    /\ warned' = FALSE
    /\ levelIndex' = 0
    /\ matrixSizeOf' = [j \in {} |-> 0]
    /\ details' = <<>>
    /\ result' = NoResult
    /\ mpc' = "analyzing"
    /\ UNCHANGED <<MAX_CONCURRENCY, maxConcurrency, FAIL_ON_ERROR, files, fileIndex,
                   issues, workflowResults, anyFailures, outputs, exitCode>>

\* the forEach callback up to the call of analyzeWorkflow, lines 679-685: the
\* file is read and loaded, and analyzeWorkflow is entered with fresh locals
FileBegin ==
    /\ mpc = "files"
    /\ fileIndex < Len(files)
    /\ files[fileIndex + 1].kind = "ok"
    /\ relativeFilePath' = FileNames[fileIndex + 1]
    /\ hasJobs' = files[fileIndex + 1].hasJobs
    /\ njobs' = files[fileIndex + 1].njobs
    /\ jobs' = files[fileIndex + 1].jobs
    /\ concurrency' = NoConcurrency(files[fileIndex + 1].njobs)
    /\ pc' = "start"
    /\ matrixProviders' = <<>>
    /\ remainingJobs' = {}
    /\ jobLevels' = <<>>
    /\ iterations' = 0
    /\ warned' = FALSE
    /\ levelIndex' = 0
    /\ matrixSizeOf' = [j \in {} |-> 0]
    /\ maxConcurrency' = 0
    /\ details' = <<>>
    /\ result' = NoResult
    /\ mpc' = "analyzing"
    /\ UNCHANGED <<MAX_CONCURRENCY, FAIL_ON_ERROR, files, fileIndex, issues,
                   workflowResults, anyFailures, outputs, exitCode>>

\* a failing file that turns the verdict of the run to fail
FileThrowsFails ==
    /\ mpc = "files"
    /\ fileIndex < Len(files)
    /\ files[fileIndex + 1].kind = "bad"
    /\ issues' = Append(issues, ErrorIssue(FileNames[fileIndex + 1]))
    /\ anyFailures' = TRUE
    /\ fileIndex' = fileIndex + 1
    /\ UNCHANGED <<hasJobs, njobs, jobs, MAX_CONCURRENCY, concurrency, pc, matrixProviders,
                   remainingJobs, jobLevels, iterations, warned, levelIndex, matrixSizeOf,
                   maxConcurrency, details, result, relativeFilePath, FAIL_ON_ERROR,
                   files, mpc, workflowResults, outputs, exitCode>>

\* a failing file that ends the loop over the files
FileThrowsSkipsRest ==
    /\ mpc = "files"
    /\ fileIndex < Len(files)
    /\ files[fileIndex + 1].kind = "bad"
    /\ issues' = Append(issues, ErrorIssue(FileNames[fileIndex + 1]))
    /\ fileIndex' = Len(files)
    /\ UNCHANGED <<hasJobs, njobs, jobs, MAX_CONCURRENCY, concurrency, pc, matrixProviders,
                   remainingJobs, jobLevels, iterations, warned, levelIndex, matrixSizeOf,
                   maxConcurrency, details, result, relativeFilePath, FAIL_ON_ERROR,
                   files, mpc, workflowResults, anyFailures, outputs, exitCode>>

\* the callback throws and its catch block runs, lines 714-718
FileThrows ==
    /\ mpc = "files"
    /\ fileIndex < Len(files)
    /\ files[fileIndex + 1].kind = "bad"
    /\ issues' = Append(issues, ErrorIssue(FileNames[fileIndex + 1]))
    /\ fileIndex' = fileIndex + 1
    /\ UNCHANGED <<hasJobs, njobs, jobs, MAX_CONCURRENCY, concurrency, pc, matrixProviders,
                   remainingJobs, jobLevels, iterations, warned, levelIndex, matrixSizeOf,
                   maxConcurrency, details, result, relativeFilePath, FAIL_ON_ERROR,
                   files, mpc, workflowResults, anyFailures, outputs, exitCode>>

\* the callback after analyzeWorkflow has returned, for a workflow without
\* jobs: the early return of lines 690-694
FileEndNoJobs ==
    /\ mpc = "analyzing"
    /\ pc = "done"
    /\ ~hasJobs
    /\ fileIndex' = fileIndex + 1
    /\ mpc' = "files"
    /\ UNCHANGED <<hasJobs, njobs, jobs, MAX_CONCURRENCY, concurrency, pc, matrixProviders,
                   remainingJobs, jobLevels, iterations, warned, levelIndex, matrixSizeOf,
                   maxConcurrency, details, result, relativeFilePath, FAIL_ON_ERROR,
                   files, issues, workflowResults, anyFailures, outputs, exitCode>>

\* the callback after analyzeWorkflow has returned, lines 696-712
FileEnd ==
    /\ mpc = "analyzing"
    /\ pc = "done"
    /\ hasJobs
    /\ IF ~result.passed
       THEN /\ issues' = Append(issues, ViolationIssue(relativeFilePath,
                                   result.concurrencyCount, MAX_CONCURRENCY))
            /\ anyFailures' = TRUE
       ELSE UNCHANGED <<issues, anyFailures>>
    /\ workflowResults' = Append(workflowResults, result)
    /\ fileIndex' = fileIndex + 1
    /\ mpc' = "files"
    /\ UNCHANGED <<hasJobs, njobs, jobs, MAX_CONCURRENCY, concurrency, pc, matrixProviders,
                   remainingJobs, jobLevels, iterations, warned, levelIndex, matrixSizeOf,
                   maxConcurrency, details, result, relativeFilePath, FAIL_ON_ERROR,
                   files, outputs, exitCode>>

\* the five setOutput calls after the loop, lines 738-750
SetOutputs ==
    /\ mpc = "files"
    /\ fileIndex = Len(files)
    /\ LET overallPassed == ~anyFailures
           o1 == setOutput(outputs, "validation_passed", overallPassed)
           o2 == setOutput(o1, "workflow_results", workflowResults)
           o3 == setOutput(o2, "issues", issues)
           o4 == setOutput(o3, "total_concurrency", totalConcurrency)
       IN  outputs' = setOutput(o4, "validation_result",
                                [passed |-> overallPassed, total |-> totalConcurrency,
                                 max |-> MAX_CONCURRENCY, issues |-> issues])
    /\ mpc' = "exit"
    /\ UNCHANGED <<hasJobs, njobs, jobs, MAX_CONCURRENCY, concurrency, pc, matrixProviders,
                   remainingJobs, jobLevels, iterations, warned, levelIndex, matrixSizeOf,
                   maxConcurrency, details, result, relativeFilePath, FAIL_ON_ERROR,
                   files, fileIndex, issues, workflowResults, anyFailures, exitCode>>

\* an end of the run that exits with 1 on every failed verdict
ExitAlways ==
    /\ mpc = "exit"
    /\ exitCode' = IF anyFailures THEN 1 ELSE 0
    /\ mpc' = "exited"
    /\ UNCHANGED <<hasJobs, njobs, jobs, MAX_CONCURRENCY, concurrency, pc, matrixProviders,
                   remainingJobs, jobLevels, iterations, warned, levelIndex, matrixSizeOf,
                   maxConcurrency, details, result, relativeFilePath, FAIL_ON_ERROR,
                   files, fileIndex, issues, workflowResults, anyFailures, outputs>>

\* lines 752-754, or the end of the script: the process ends
Exit ==
    /\ mpc = "exit"
    /\ exitCode' = IF anyFailures /\ FAIL_ON_ERROR THEN 1 ELSE 0
    /\ mpc' = "exited"
    /\ UNCHANGED <<hasJobs, njobs, jobs, MAX_CONCURRENCY, concurrency, pc, matrixProviders,
                   remainingJobs, jobLevels, iterations, warned, levelIndex, matrixSizeOf,
                   maxConcurrency, details, result, relativeFilePath, FAIL_ON_ERROR,
                   files, fileIndex, issues, workflowResults, anyFailures, outputs>>

\* a catch block that writes the issues as they were before the fatal error
CatchOutputsStale ==
    /\ mpc = "catch"
    /\ issues' = Append(issues, FatalIssue)
    /\ LET o1 == setOutput(outputs, "validation_passed", FALSE)
           o2 == setOutput(o1, "workflow_results", <<>>)
           o3 == setOutput(o2, "issues", issues)
       IN  outputs' = setOutput(o3, "total_concurrency", 0)
    /\ mpc' = "catchExit"
    /\ UNCHANGED <<hasJobs, njobs, jobs, MAX_CONCURRENCY, concurrency, pc, matrixProviders,
                   remainingJobs, jobLevels, iterations, warned, levelIndex, matrixSizeOf,
                   maxConcurrency, details, result, relativeFilePath, FAIL_ON_ERROR,
                   files, fileIndex, workflowResults, anyFailures, exitCode>>

\* the catch block of the top-level try up to its last setOutput, lines 757-762
CatchOutputs ==
    /\ mpc = "catch"
    /\ issues' = Append(issues, FatalIssue)
    /\ LET o1 == setOutput(outputs, "validation_passed", FALSE)
           o2 == setOutput(o1, "workflow_results", <<>>)
           o3 == setOutput(o2, "issues", issues')
       IN  outputs' = setOutput(o3, "total_concurrency", 0)
    /\ mpc' = "catchExit"
    /\ UNCHANGED <<hasJobs, njobs, jobs, MAX_CONCURRENCY, concurrency, pc, matrixProviders,
                   remainingJobs, jobLevels, iterations, warned, levelIndex, matrixSizeOf,
                   maxConcurrency, details, result, relativeFilePath, FAIL_ON_ERROR,
                   files, fileIndex, workflowResults, anyFailures, exitCode>>

\* lines 764-766, or the end of the script: the process ends
CatchExit ==
    /\ mpc = "catchExit"
    /\ exitCode' = IF FAIL_ON_ERROR THEN 1 ELSE 0
    /\ mpc' = "exited"
    /\ UNCHANGED <<hasJobs, njobs, jobs, MAX_CONCURRENCY, concurrency, pc, matrixProviders,
                   remainingJobs, jobLevels, iterations, warned, levelIndex, matrixSizeOf,
                   maxConcurrency, details, result, relativeFilePath, FAIL_ON_ERROR,
                   files, fileIndex, issues, workflowResults, anyFailures, outputs>>

NextMain ==
    \/ ValidateInputs
    \/ ValidateInputsThrows
    \/ FileBegin
    \/ FileThrows
    \/ AnalyzeNoJobs
    \/ AnalyzeBegin
    \/ LayerStep
    \/ CycleBreak
    \/ ProcessLevel
    \/ Return
    \/ FileEndNoJobs
    \/ FileEnd
    \/ SetOutputs
    \/ Exit
    \/ CatchOutputs
    \/ CatchExit

\* the contents of the discovered files
FileContents ==
    {BadFile, NoJobsFile,
     WorkflowFile(0, {}, {}),
     WorkflowFile(1, {}, {}),
     WorkflowFile(MaxCeiling, {}, {}),
     WorkflowFile(MaxJobs, {}, {}),
     WorkflowFile(2, {<<"a", "a">>}, {"b"}),
     WorkflowFile(2, {<<"b", "a">>, <<"b", Ghost>>}, {})}

\* a run of the action: a ceiling (0 stands for every value validateInputs
\* rejects), the fail-on-violation setting and up to MaxFiles discovered files
InitMain ==
    /\ MAX_CONCURRENCY \in {0, MaxCeiling - 1, MaxCeiling}
    /\ FAIL_ON_ERROR \in BOOLEAN
    /\ files \in SeqsUpTo(FileContents, MaxFiles)
    /\ mpc = "validate"
    /\ fileIndex = 0
    /\ issues = <<>>
    /\ workflowResults = <<>>
    /\ anyFailures = FALSE
    /\ outputs = <<>>
    /\ exitCode = 0
    /\ relativeFilePath = "none"
    /\ concurrency = NoConcurrency(0)
    /\ hasJobs = FALSE
    /\ njobs = 0
    /\ jobs = <<>>
    /\ pc = "none"
    /\ matrixProviders = <<>>
    /\ remainingJobs = {}
    /\ jobLevels = <<>>
    /\ iterations = 0
    /\ warned = FALSE
    /\ levelIndex = 0
    /\ matrixSizeOf = [j \in {} |-> 0]
    /\ maxConcurrency = 0
    /\ details = <<>>
    /\ result = NoResult

SpecMain == InitMain /\ [][NextMain]_vars

\* the levels the while loop of lines 574-588 extracts from a jobs mapping
RECURSIVE LevelsFrom(_, _, _)
LevelsFrom(js, n, remaining) ==
    LET currentLevel == currentLevelOf(js, n, remaining)
    IN  IF remaining = {} \/ currentLevel = <<>> THEN <<>>
        ELSE <<currentLevel>> \o LevelsFrom(js, n, remaining \ Range(currentLevel))

\* analyzeWorkflow(workflow, relativeFilePath) as a function of the loaded
\* file, its path and the ceiling
AnalysisOf(f, name, ceiling) ==
    IF ~f.hasJobs
    THEN [file |-> name, concurrencyCount |-> 0, passed |-> TRUE, details |-> <<>>]
    ELSE LET levels == LevelsFrom(f.jobs, f.njobs, Declared(f.njobs))
             providers == getMatrixProviders(f.jobs, f.njobs)
             width(i) == calculateLevelConcurrency(levels[i], f.jobs, providers)
             count == SetMax({width(i) : i \in 1..Len(levels)})
         IN  [file |-> name, concurrencyCount |-> count, passed |-> (count <= ceiling),
              details |-> [i \in 1..Len(levels) |->
                             [file |-> name, jobs |-> levels[i], count |-> width(i),
                              counted |-> TRUE]]]

\* ------------------------------------------------------- auxiliary notions

\* the declared jobs a job depends on, directly
DeclaredDeps(j) == dependencyMap(jobs, j) \cap Declared(njobs)

RECURSIVE DepClosure(_, _)
DepClosure(S, k) ==
    IF k = 0 THEN S
    ELSE DepClosure(S \cup UNION {DeclaredDeps(x) : x \in S}, k - 1)

\* the declared jobs a job depends on, directly or transitively
TransDeps(j) == DepClosure(DeclaredDeps(j), njobs)

Acyclic == \A j \in Declared(njobs) : j \notin TransDeps(j)

\* the indices of the levels that contain j
LevelsOf(j) == {i \in 1..Len(jobLevels) : j \in Range(jobLevels[i])}

LevelOf(j) == CHOOSE i \in LevelsOf(j) : TRUE

\* the width the program computes for a level
Width(level) == calculateLevelConcurrency(level, jobs, matrixProviders)

\* the multiplier the program computes for a job
Multiplier(j) == calculateMatrixSize(jobs[j], matrixProviders)

Analyzed == pc = "done" /\ hasJobs

\* ------------------------------------------------------------------ claims

\* C1: for an analyzed file with jobs, concurrencyCount is the maximum over
\* the extracted levels of the level's width (0 without levels), and details
\* has one entry per level, in level order, with that level's jobs and width.
C1_MaxOverLevels ==
    Analyzed =>
        /\ result.concurrencyCount = SetMax({Width(jobLevels[i]) : i \in 1..Len(jobLevels)})
        /\ Len(result.details) = Len(jobLevels)
        /\ \A i \in 1..Len(jobLevels) :
              /\ jobLevels[i] # <<>>
              /\ result.details[i].jobs = jobLevels[i]
              /\ result.details[i].count = Width(jobLevels[i])

\* two levels whose widths add up to more than the larger of them
C1_Witness ==
    /\ Analyzed
    /\ Len(jobLevels) >= 2
    /\ result.concurrencyCount >= 2
    /\ result.concurrencyCount
         < SeqSum([i \in 1..Len(jobLevels) |-> Width(jobLevels[i])])

\* C2: passed is true exactly when concurrencyCount <= the ceiling.
C2_PassedIffWithinCeiling ==
    pc = "done" => (result.passed <=> result.concurrencyCount <= MAX_CONCURRENCY)

\* a count equal to the ceiling, which passes
C2_Witness ==
    /\ Analyzed
    /\ result.concurrencyCount = MAX_CONCURRENCY
    /\ result.passed

\* C4: when the dependency relation is acyclic, the layering loop places every
\* job in exactly one level, above the level of every declared job it needs.
C4_Layering ==
    (pc \in {"aggregate", "done"} /\ hasJobs /\ Acyclic) =>
        /\ ~warned
        /\ \A i \in 1..Len(jobLevels) :
              Cardinality(Range(jobLevels[i])) = Len(jobLevels[i])
        /\ \A j \in Declared(njobs) :
              /\ Cardinality(LevelsOf(j)) = 1
              /\ \A dep \in DeclaredDeps(j) : LevelOf(dep) < LevelOf(j)

\* an acyclic chain of three levels
C4_Witness ==
    /\ Analyzed
    /\ Acyclic
    /\ Len(jobLevels) = 3
    /\ \E j \in Declared(njobs) : DeclaredDeps(j) # {} /\ Ghost \in dependencyMap(jobs, j)

\* the sets of jobs no two of which are related by a dependency, direct or
\* transitive
Antichains ==
    {S \in SUBSET Declared(njobs) :
        \A x \in S : \A y \in S : x \notin TransDeps(y)}

RECURSIVE SetSum(_)
SetSum(S) ==
    IF S = {} THEN 0
    ELSE LET x == CHOOSE y \in S : TRUE
         IN  Multiplier(x) + SetSum(S \ {x})

\* C5: for an acyclic task map, concurrencyCount is the largest total
\* multiplier of a set of jobs none of which depends on another of the set.
C5_MaxSimultaneous ==
    (Analyzed /\ Acyclic) =>
        result.concurrencyCount = SetMax({SetSum(S) : S \in Antichains})

\* the job's matrixSize has been computed (its level has been processed)
Computed(j) == j \in DOMAIN matrixSizeOf

\* the product of the factors of the matrix entries of j other than entry i
OthersProduct(j, i) ==
    SeqProd([x \in 1..Len(jobs[j].matrix) |->
                IF x = i THEN 1 ELSE DimFactor(jobs[j].matrix[x], matrixProviders)])

\* C3: the width of a level is the sum of the multipliers of its jobs, each
\* job counted once.
C3_LevelIsSumOfMultipliers ==
    \A i \in 1..Len(details) :
        details[i].count
          = SeqSum([x \in 1..Len(details[i].jobs) |-> Multiplier(details[i].jobs[x])])

StaticOnly(job) ==
    /\ job.hasMatrix
    /\ \A i \in 1..Len(job.matrix) : job.matrix[i].kind = "list"

\* C6: a matrix of explicit lists only has the product of their lengths as
\* multiplier; no matrix, or a matrix without entries, has multiplier 1.
C6_StaticProduct ==
    \A j \in Declared(njobs) :
        Computed(j) =>
            /\ StaticOnly(jobs[j]) =>
                  matrixSizeOf[j]
                    = SeqProd([i \in 1..Len(jobs[j].matrix) |-> jobs[j].matrix[i].len])
            /\ (~jobs[j].hasMatrix \/ jobs[j].matrix = <<>>) => matrixSizeOf[j] = 1

\* a computed job with two lists, one of them of the largest length
C6_Witness ==
    \E j \in Declared(njobs) :
        /\ Computed(j)
        /\ StaticOnly(jobs[j])
        /\ Len(jobs[j].matrix) = 2
        /\ jobs[j].matrix[1].len = MaxListLen
        /\ jobs[j].matrix[2].len >= 1
        /\ matrixSizeOf[j] = MaxListLen * jobs[j].matrix[2].len

\* C7: every computed multiplier is at least 1, so every level is at least as
\* wide as it has jobs.
C7_MultiplierAtLeastOne ==
    /\ \A j \in Declared(njobs) : Computed(j) => matrixSizeOf[j] >= 1
    /\ \A i \in 1..Len(details) : details[i].count >= Len(details[i].jobs)

\* a matrix entry whose values come from a fromJSON expression
DynamicDim(v) == v.kind = "string" /\ v.fromJSON

\* the elements of the last matching echo line of job p for key k; -1 if none
LastEmit(p, k) ==
    IF p \notin Declared(njobs) THEN -1
    ELSE LET at == {i \in 1..Len(jobs[p].steps) : jobs[p].steps[i].key = k}
         IN  IF at = {} THEN -1
             ELSE jobs[p].steps[CHOOSE i \in at : \A x \in at : x <= i].elems

\* the declared string value of output k of job p, if any
DeclaredOut(p, k) ==
    IF p \notin Declared(njobs) THEN {}
    ELSE {jobs[p].outputs[i].val : i \in {x \in 1..Len(jobs[p].outputs) :
                /\ jobs[p].outputs[x].key = k
                /\ jobs[p].outputs[x].val.isString}}

\* some heuristic gives the entry a size: a literal in the expression, a step
\* output line of the referenced provider, a literal in its declared output
SizeKnown(v) ==
    \/ v.inline > 0
    \/ /\ v.ref # NoRef
       /\ DeclaredOut(v.ref[1], v.ref[2]) # {}
       /\ \/ LastEmit(v.ref[1], v.ref[2]) >= 0
          \/ \E o \in DeclaredOut(v.ref[1], v.ref[2]) : o.bracket

\* C8: a dynamic entry whose size no heuristic determines contributes the
\* factor 3, and only for itself.
C8_UndeterminedIsThree ==
    \A j \in Declared(njobs) :
        Computed(j) =>
            \A i \in 1..Len(jobs[j].matrix) :
                (DynamicDim(jobs[j].matrix[i]) /\ ~SizeKnown(jobs[j].matrix[i])) =>
                    matrixSizeOf[j] = 3 * OthersProduct(j, i)

\* C9: an entry that references an output key for which the provider's steps
\* emit a literal of n >= 1 elements contributes the factor n.
C9_StepScanSize ==
    \A j \in Declared(njobs) :
        Computed(j) =>
            \A i \in 1..Len(jobs[j].matrix) :
                LET v == jobs[j].matrix[i]
                IN  (/\ v.kind = "string" /\ v.fromJSON /\ v.ref # NoRef
                     /\ DeclaredOut(v.ref[1], v.ref[2]) # {}
                     /\ LastEmit(v.ref[1], v.ref[2]) >= 1) =>
                        matrixSizeOf[j] = LastEmit(v.ref[1], v.ref[2]) * OthersProduct(j, i)

\* C10: an entry whose expression contains a bracketed literal list of n
\* elements contributes the factor n.
C10_InlineLiteral ==
    \A j \in Declared(njobs) :
        Computed(j) =>
            \A i \in 1..Len(jobs[j].matrix) :
                LET v == jobs[j].matrix[i]
                IN  (v.kind = "string" /\ v.fromJSON /\ v.inline > 0) =>
                        matrixSizeOf[j] = v.inline * OthersProduct(j, i)

\* the entry is an explicit list, or a fromJSON expression that references a
\* registered provider: its size is resolved
Resolved(v) ==
    \/ v.kind = "list"
    \/ /\ DynamicDim(v)
       /\ v.ref # NoRef
       /\ MapHas(matrixProviders, v.ref)

\* C11: the multiplier of a job with several matrix entries is the product of
\* the sizes resolved for its entries, also when that product is 1 and the job
\* needs a provider job that has an output of size greater than 1.
C11_ProductOfResolvedSizes ==
    \A j \in Declared(njobs) :
        (/\ Computed(j) /\ jobs[j].hasMatrix /\ Len(jobs[j].matrix) >= 2
         /\ \A i \in 1..Len(jobs[j].matrix) : Resolved(jobs[j].matrix[i])) =>
            matrixSizeOf[j] = MatrixProduct(jobs[j], matrixProviders)

\* the job is on a dependency cycle or depends, directly or transitively, on a
\* job that is
Blocked(j) == \E x \in TransDeps(j) \cup {j} : x \in TransDeps(x)

NeedsUndeclared(j) == dependencyMap(jobs, j) \ Declared(njobs) # {}

\* C12: a job that needs an undeclared id, and is neither on a cycle nor behind
\* one, is placed exactly once, in the level right after the last of its
\* declared dependencies (the first level when it has none), and an undeclared
\* id alone never makes the loop stop with the circular dependency warning.
C12_UndeclaredNeverBlocks ==
    (pc \in {"aggregate", "done"} /\ hasJobs) =>
        /\ Acyclic => (~warned /\ remainingJobs = {})
        /\ \A j \in Declared(njobs) :
              (NeedsUndeclared(j) /\ ~Blocked(j)) =>
                  /\ Cardinality(LevelsOf(j)) = 1
                  /\ LevelOf(j) = 1 + SetMax({LevelOf(d) : d \in DeclaredDeps(j)})

\* a job that needs an undeclared id and a declared job, placed in the second
\* level, next to a job that needs only an undeclared id, placed in the first
C12_Witness ==
    /\ Analyzed
    /\ \E j \in Declared(njobs) :
          /\ NeedsUndeclared(j) /\ DeclaredDeps(j) # {} /\ LevelsOf(j) = {2}
    /\ \E j \in Declared(njobs) :
          /\ NeedsUndeclared(j) /\ DeclaredDeps(j) = {} /\ LevelsOf(j) = {1}

\* C13: when the dependency relation has a cycle, the loop stops with the
\* warning at the first iteration that finds no ready job: the jobs on a cycle
\* or behind one are exactly the jobs left unplaced, every other job is in one
\* level, and the levels extracted before are reported in details and alone
\* give concurrencyCount.
C13_CycleStopsLayering ==
    (Analyzed /\ ~Acyclic) =>
        /\ warned
        /\ iterations = Len(jobLevels) + 1
        /\ remainingJobs = {j \in Declared(njobs) : Blocked(j)}
        /\ \A j \in Declared(njobs) :
              Cardinality(LevelsOf(j)) = IF Blocked(j) THEN 0 ELSE 1
        /\ Len(result.details) = Len(jobLevels)
        /\ \A i \in 1..Len(jobLevels) :
              /\ result.details[i].jobs = jobLevels[i]
              /\ result.details[i].count = Width(jobLevels[i])
        /\ result.concurrencyCount
             = SetMax({Width(jobLevels[i]) : i \in 1..Len(jobLevels)})

\* a level was extracted before the loop stopped on a job that needs itself,
\* and a job behind it stays unplaced
C13_Witness ==
    /\ Analyzed
    /\ warned
    /\ Len(jobLevels) >= 1
    /\ result.concurrencyCount >= 2
    /\ \E j \in Declared(njobs) : j \in dependencyMap(jobs, j)
    /\ \E j \in Declared(njobs) : Blocked(j) /\ j \notin TransDeps(j)

\* ---------------------------------------------------- claims about a run

\* a fatal error was thrown: validateInputs rejected the ceiling
FatalError == mpc \in {"catch", "catchExit", "exited"} /\ MAX_CONCURRENCY <= 0

\* the run has ended
Exited == mpc = "exited"

\* the values written for an output name, and the one a reader of the output
\* file gets (the last)
WritesOf(name) == SelectSeq(outputs, LAMBDA o : o.name = name)
Written(name) == Len(WritesOf(name)) > 0
ValueOf(name) == WritesOf(name)[Len(WritesOf(name))].value

\* the positions in issues and in workflowResults that are about a file
IssuesAbout(name) == {k \in 1..Len(issues) : issues[k].file = name}
ResultsAbout(name) == {k \in 1..Len(workflowResults) : workflowResults[k].file = name}

\* the jobs of a loaded file that a job reaches through `needs`
RECURSIVE Reach(_, _, _)
Reach(f, S, k) ==
    IF k = 0 THEN S
    ELSE Reach(f, S \cup UNION {Range(f.jobs[x].needs) \cap Declared(f.njobs) : x \in S},
               k - 1)

HasCycle(f) ==
    \E j \in Declared(f.njobs) :
        j \in Reach(f, Range(f.jobs[j].needs) \cap Declared(f.njobs), f.njobs)

HasUndeclaredNeed(f) ==
    \E j \in Declared(f.njobs) : Range(f.jobs[j].needs) \ Declared(f.njobs) # {}

\* C14: when the run has ended, the issues output holds a warning about every
\* processed file in which a dependency cycle or a dependency on an undeclared
\* id was found.
C14_AnomaliesInIssues ==
    Exited =>
        \A i \in 1..fileIndex :
            (files[i].kind = "ok" /\ (HasCycle(files[i]) \/ HasUndeclaredNeed(files[i]))) =>
                /\ Written("issues")
                /\ \E k \in 1..Len(ValueOf("issues")) :
                      /\ ValueOf("issues")[k].kind = "warning"
                      /\ ValueOf("issues")[k].file = FileNames[i]

\* C15: a fatal error is raised before any file is processed and the process
\* exits with code 1, whatever FAIL_ON_ERROR is.
C15_FatalExitsOne ==
    /\ FatalError => (fileIndex = 0 /\ workflowResults = <<>>)
    /\ (Exited /\ FatalError) => exitCode = 1

\* C16: a run that ends without fatal error exits with code 1 exactly when
\* the validation_passed output is false and FAIL_ON_ERROR is set, and with
\* code 0 otherwise.
C16_ExitCode ==
    (Exited /\ ~FatalError) =>
        /\ Written("validation_passed")
        /\ exitCode = IF ~ValueOf("validation_passed") /\ FAIL_ON_ERROR THEN 1 ELSE 0

\* a failed verdict that does not make the process fail
C16_Witness ==
    /\ Exited
    /\ ~FatalError
    /\ ~ValueOf("validation_passed")
    /\ ~FAIL_ON_ERROR
    /\ exitCode = 0

\* C17: a file whose processing throws has exactly one issue, an error, and
\* no result; every other processed file has the issues and the result its own
\* content gives, whether it comes before or after the failing file.
C17_FailingFileIsolated ==
    \A i \in 1..fileIndex :
        files[i].kind = "bad" =>
            /\ Cardinality(IssuesAbout(FileNames[i])) = 1
            /\ \A k \in IssuesAbout(FileNames[i]) : issues[k] = ErrorIssue(FileNames[i])
            /\ ResultsAbout(FileNames[i]) = {}
            /\ \A x \in 1..fileIndex :
                  files[x].kind = "ok" =>
                      LET expected == AnalysisOf(files[x], FileNames[x], MAX_CONCURRENCY)
                      IN  /\ \A k \in ResultsAbout(FileNames[x]) :
                                workflowResults[k] = expected
                          /\ files[x].hasJobs =>
                                Cardinality(ResultsAbout(FileNames[x])) = 1
                          /\ \A k \in IssuesAbout(FileNames[x]) :
                                issues[k].kind = "violation"
                          /\ Cardinality(IssuesAbout(FileNames[x]))
                               = IF expected.passed THEN 0 ELSE 1

\* a failing file followed by a file over the ceiling, both processed
C17_Witness ==
    /\ fileIndex >= 2
    /\ files[1].kind = "bad"
    /\ files[2].kind = "ok"
    /\ \E k \in ResultsAbout(FileNames[2]) : ~workflowResults[k].passed
    /\ Len(issues) = 2

\* the result content: a result without the paths
ContentOf(r) ==
    [concurrencyCount |-> r.concurrencyCount, passed |-> r.passed,
     details |-> [i \in 1..Len(r.details) |->
                    [jobs |-> r.details[i].jobs, count |-> r.details[i].count,
                     counted |-> r.details[i].counted]]]

\* the file a stored result is about
FileOf(r) == CHOOSE i \in 1..Len(files) : FileNames[i] = r.file

\* C18: once the catch block of a fatal error has made its setOutput calls,
\* the outputs read validation_passed = false, an empty result list, a total
\* of 0 and an issues list with the fatal error message.
C18_FatalOutputRecord ==
    (FatalError /\ mpc \in {"catchExit", "exited"}) =>
        /\ Written("validation_passed") /\ ValueOf("validation_passed") = FALSE
        /\ Written("workflow_results") /\ ValueOf("workflow_results") = <<>>
        /\ Written("total_concurrency") /\ ValueOf("total_concurrency") = 0
        /\ Written("issues")
        /\ \E k \in 1..Len(ValueOf("issues")) : ValueOf("issues")[k] = FatalIssue

\* a fatal error that ends the process with code 0, its record written
C18_Witness ==
    /\ Exited
    /\ FatalError
    /\ exitCode = 0
    /\ Len(files) > 0
    /\ Len(outputs) = 4

\* C19: every stored result is what the content of its file and the ceiling
\* give, whatever was processed before; two files of equal content have
\* results of equal content.
C19_PerFileFunction ==
    /\ \A k \in 1..Len(workflowResults) :
          LET r == workflowResults[k]
          IN  r = AnalysisOf(files[FileOf(r)], r.file, MAX_CONCURRENCY)
    /\ \A k \in 1..Len(workflowResults) : \A m \in 1..Len(workflowResults) :
          files[FileOf(workflowResults[k])] = files[FileOf(workflowResults[m])] =>
              ContentOf(workflowResults[k]) = ContentOf(workflowResults[m])

\* two stored results, the first of a wider file than the second
C19_Witness ==
    /\ Exited
    /\ Len(workflowResults) = 2
    /\ workflowResults[1].concurrencyCount > workflowResults[2].concurrencyCount
    /\ workflowResults[2].concurrencyCount >= 1

\* C20: when the run has ended without fatal error, workflowResults holds one
\* result for every file that was read and loaded, in discovery order.
C20_OneResultPerLoadedFile ==
    (Exited /\ ~FatalError) =>
        [k \in 1..Len(workflowResults) |-> workflowResults[k].file]
          = SelectSeq([i \in 1..Len(files) |-> FileNames[i]],
                      LAMBDA name : \E i \in 1..Len(files) :
                                        FileNames[i] = name /\ files[i].kind = "ok")

\* C21: a file without jobs mapping, or with an empty one, has the result
\* concurrencyCount 0, passed, without details, for every ceiling that
\* validateInputs accepts.
C21_ZeroJobsPass ==
    (pc = "done" /\ njobs = 0 /\ MAX_CONCURRENCY >= 1) =>
        /\ result.concurrencyCount = 0
        /\ result.passed
        /\ result.details = <<>>

\* the analysis of an empty jobs mapping has returned, under the smallest
\* ceiling
C21_Witness ==
    /\ pc = "done"
    /\ hasJobs
    /\ njobs = 0
    /\ jobLevels = <<>>
    /\ MAX_CONCURRENCY = MaxCeiling - 1
    /\ result.file = relativeFilePath

\* the workflow under analysis, without its `concurrency` keys
Workflow == [kind |-> "ok", hasJobs |-> hasJobs, njobs |-> njobs, jobs |-> jobs]

C23_LoopBound ==
    /\ iterations <= njobs
    /\ iterations = Len(jobLevels) + (IF warned THEN 1 ELSE 0)
    /\ warned => pc # "layering"
    /\ pc = "layering" =>
          /\ iterations < njobs
          /\ ENABLED (LayerStep \/ CycleBreak)
    /\ pc \in {"layering", "aggregate", "done"} =>
          /\ Len(jobLevels) <= Cardinality(Declared(njobs) \ remainingJobs)
          /\ \A i \in 1..Len(jobLevels) : jobLevels[i] # <<>>

\* a cyclic file of MaxJobs jobs whose loop made MaxJobs iterations, the last
\* of them the stopping one
C23_Witness ==
    /\ pc = "done"
    /\ njobs = MaxJobs
    /\ warned
    /\ iterations = njobs
    /\ Len(jobLevels) = njobs - 1

\* the entries of the workflow_results output that exceed the ceiling
OverCeiling ==
    {k \in 1..Len(ValueOf("workflow_results")) :
        ValueOf("workflow_results")[k].concurrencyCount > MAX_CONCURRENCY}

C25_ResultWrittenOnFailure ==
    (Exited /\ Written("validation_passed") /\ ~ValueOf("validation_passed")) =>
        Written("validation_result")

=============================================================================
